---- MODULE Spec2Model ----
(***************************************************************************)
(* GradCafe scraper (module_2 / module_4 / module_5 scrape.py) and the     *)
(* Flask application that runs it.                                         *)
(*                                                                         *)
(* module_2/scrape.py and module_4/src/scrape.py are the same program up   *)
(* to comments; the model calls that program variant "m4".  The refactored *)
(* module_5/src/scrape.py is variant "m5".                                 *)
(*                                                                         *)
(*   Spec      the crawl orchestrator scrape_data, with construction from  *)
(*             the checkpoint and a sequence of runs                       *)
(*   MergeSpec the merge step of scrape_data on arbitrary entry lists      *)
(*   FetchSpec one _fetch_html call                                        *)
(*   SaveSpec  one save_data call, step by step, with interruption         *)
(*   LoadSpec  a process start on an arbitrary checkpoint file             *)
(*   TaskSpec  the crawl when page tasks fail to fetch or raise            *)
(*   ParseSpec _parse_page on arbitrary row lists                          *)
(*   AppSpec   the Flask application (module_3 / module_4 / module_5       *)
(*             app.py): /pull-data, /update-analysis and _run_pull_job     *)
(*   DbSpec    the database loader (module_3 / module_4 load_data.py) and  *)
(*             the get_cursor transaction block of db.py                   *)
(*   PoolSpec  the page tasks in the worker threads and the merge of their *)
(*             results, under self._lock, in the main thread               *)
(*   CleanSpec DataCleaner.clean_data (module_2 / module_5 clean.py)       *)
(*   OrderSpec the crawl of module_2 / module_4 over MaxK + 1 listing      *)
(*             pages that all carry records                                *)
(***************************************************************************)
EXTENDS Integers, Sequences, FiniteSets, TLC

\* ---------------------------------------------------------------- bounds
MaxWorkers   == 2      \* SCRAPE_WORKERS ranges over 1..MaxWorkers
MaxTarget    == 2      \* target ranges over 1..MaxTarget
MaxK         == 1      \* number of listing pages that carry data
MaxRuns      == 2      \* scrape_data runs in one behaviour
MaxSaveEvery == 2      \* SAVE_EVERY_PAGES ranges over 1..MaxSaveEvery
MaxPage      == 30     \* cap on the page counter next_page
MaxRetries   == 3      \* SCRAPE_RETRIES ranges over 0..MaxRetries
MaxSaveLen   == 2      \* length of the collections handed to save_data
MaxCkpt      == 41     \* records in a checkpoint file range over 0..MaxCkpt
MaxRows      == 3      \* rows of a listing body range over 0..MaxRows
MaxJobs      == 2      \* threads available to run _run_pull_job
MaxReqs      == 2      \* HTTP requests handled at the same time
MaxLoadRows  == 2      \* rows handed to one load range over 0..MaxLoadRows
MaxLoads     == 2      \* loads in one behaviour
MaxCleanRows == 3      \* rows of the cleaner's input range over 1..MaxCleanRows
MaxBatch     == 2      \* batch_size ranges over 1..MaxBatch

\* ------------------------------------------------------- program constants
PageSizeGuess == 20    \* len(results) // 20 + 1
MinBadCeiling == 12    \* max(12, workers * 4)
BadPerWorker  == 4
M5BadCeiling  == 20    \* module_5: consecutive_bad < 20
BackoffBase   == 6     \* 0.6 s, in tenths of a second
JitterMax     == 4     \* random.uniform(0.0, 0.4), in tenths of a second
MinCells      == 4     \* a main row has at least 4 direct td cells
SaveRows      == 1000  \* clean_data: if i % 1000 == 0: self._atomic_save(cleaned)

Variants == {"m4", "m5"}

\* ------------------------------------------------------------ id values
\* A record is represented by the value of its "result_id" key.
Null  == "null"                 \* Python None / JSON null
Empty == ""                     \* the empty string
Ids   == {"101", "102"}         \* ids matched by RESULT_HREF_RE (digits)

\* Python str(x)
Str(x) == IF x = Null THEN "None" ELSE x

\* Python truth value of an id value
Truthy(x) == x # Null /\ x # Empty

Max(a, b) == IF a >= b THEN a ELSE b

\* ------------------------------------------------------------ files
NoFile == [exists |-> FALSE, data |-> <<>>, complete |-> FALSE]
\* a file holding the complete JSON array of d
JsonFile(d) == [exists |-> TRUE, data |-> d, complete |-> TRUE]
\* a file holding a proper prefix of the serialization of an array
PartialFile(d) == [exists |-> TRUE, data |-> d, complete |-> FALSE]

Range(s) == {s[i] : i \in 1..Len(s)}

\* a fetched body without a tbody; the value _parse_page has not yet returned
NoBody    == [tbody |-> FALSE, rows |-> <<>>]
NotParsed == [entries |-> <<>>, status |-> "none"]

\* threads that run _run_pull_job, request handlers, a handler at rest
JobIds == 1..MaxJobs
ReqIds == 1..MaxReqs
NoReq  == [kind |-> "none", pc |-> "idle", code |-> 0, started |-> 0]
IdleJob == [pc |-> "idle", exc |-> "none"]

\* the applicants table: absent, or a set of rows; no open transaction;
\* the arguments of a load_rows call
NoTable == [exists |-> FALSE, rows |-> {}]
EmptyTable == [exists |-> TRUE, rows |-> {}]
NoTxn == [open |-> FALSE, view |-> NoTable, aborted |-> FALSE]
NoLoad == [rows |-> <<>>, reset |-> FALSE]

VARIABLES
  \* configuration (fixed in a behaviour)
  variant, max_workers, target, save_every_pages, source,
  \* scraper object
  results, seen_ids, start_page,
  \* scrape_data locals
  pc, next_page, pages_done, consecutive_bad, in_flight, done,
  \* file system
  disk, tmp,
  \* history
  run, loaded,
  \* _fetch_html
  max_retries, f_pc, attempt, resp, delays, http_attempts, ret,
  \* save_data
  s_pc, old_disk,
  \* merge step under test
  m_entries, m_before,
  \* _parse_page under test
  body, parsed,
  \* Flask application
  is_pulling, last_status, pull_lock, jobs, reqs,
  \* database and loader (load_data.py, db.py)
  table, txn, l_pc, l_in, l_cleaned, l_i, l_ret, l_before, l_hist,
  \* worker pool and merge lock (scrape.py: page tasks, self._lock)
  lock, task_pc, t_pc,
  \* DataCleaner.clean_data (clean.py)
  c_pc, c_data, batch_size, c_i, use_api, cache, cleaned, sent, c_last, c_out

crawlCfg   == <<variant, max_workers, target, save_every_pages, source>>
crawlObj   == <<results, seen_ids, start_page>>
crawlLoc   == <<pc, next_page, pages_done, consecutive_bad, in_flight, done>>
crawlHist  == <<run, loaded>>
fetchVars  == <<max_retries, f_pc, attempt, resp, delays, http_attempts, ret>>
saveVars   == <<s_pc, old_disk>>
mergeVars  == <<m_entries, m_before>>
parseVars  == <<body, parsed>>
appVars    == <<is_pulling, last_status, pull_lock, jobs, reqs>>
scraperVars == <<crawlCfg, crawlObj, crawlLoc, crawlHist, disk, tmp, fetchVars, saveVars, mergeVars>>
dbVars     == <<table, txn, l_pc, l_in, l_cleaned, l_i, l_ret, l_before, l_hist>>
poolVars   == <<lock, task_pc, t_pc>>
cleanVars  == <<c_pc, c_data, batch_size, c_i, use_api, cache, cleaned, sent, c_last, c_out>>
vars == <<scraperVars, parseVars, appVars, dbVars, poolVars, cleanVars>>

\* ------------------------------------------------------------ merge step
\* rid of one entry as the merge loop computes it
RidOf(v, e) ==
  IF v = "m4" THEN Str(IF Truthy(e) THEN e ELSE Empty)   \* str(e.get("result_id") or "")
  ELSE Str(e)                                             \* str(item.get("result_id", ""))

\* Appends without the membership test on the seen-id set
Appends_NoSeenTest(v, e, seen) == RidOf(v, e) # Empty

\* the entry is appended (Python: a non-empty string is true)
Appends(v, e, seen) == RidOf(v, e) # Empty /\ RidOf(v, e) \notin seen

RECURSIVE MergeEntries(_, _, _)
\* st = [results, seen]; the for loop over the entries of one page
MergeEntries(v, st, entries) ==
  IF entries = <<>> THEN st
  ELSE LET e == Head(entries)
           st2 == IF Appends(v, e, st.seen)
                  THEN [results |-> Append(st.results, e),
                        seen |-> st.seen \cup {RidOf(v, e)}]
                  ELSE st
       IN MergeEntries(v, st2, Tail(entries))

\* ------------------------------------------------------------ checkpoint load
\* LoadState with the resume cursor left at page 1
LoadState_PageOne(file) ==
  IF file.exists /\ file.complete
  THEN [results |-> file.data,
        seen |-> {Str(file.data[i]) : i \in {j \in 1..Len(file.data) : Truthy(file.data[j])}},
        start_page |-> 1]
  ELSE [results |-> <<>>, seen |-> {}, start_page |-> 1]

\* __init__ / _load_existing_data: the scraper state built from the file
LoadState(file) ==
  IF file.exists /\ file.complete
  THEN [results |-> file.data,
        seen |-> {Str(file.data[i]) : i \in {j \in 1..Len(file.data) : Truthy(file.data[j])}},
        start_page |-> (Len(file.data) \div PageSizeGuess) + 1]
  ELSE [results |-> <<>>, seen |-> {}, start_page |-> 1]

\* A checkpoint file that exists and is not the JSON text of a list of records:
\*   "unreadable"  open() fails (a directory, no permission)
\*   "bytes"       bytes that are not UTF-8
\*   "object"      a JSON object with a key, e.g. {"a": 1}
\*   "number"      a JSON number other than 0, e.g. 5
\*   "elements"    a JSON list with an element that is no object, e.g. [5]
Damages == {"unreadable", "bytes", "object", "number", "elements"}
DamagedFile(k) == [exists |-> TRUE, data |-> <<>>, complete |-> FALSE, damage |-> k]

\* the exception class raised inside the try block of the load, "none" if none
LoadError(file) ==
  IF ~file.exists THEN "none"
  ELSE IF "damage" \in DOMAIN file
       THEN CASE file.damage = "unreadable" -> "OSError"
              [] file.damage = "bytes"      -> "UnicodeDecodeError"   \* json.load(f) reads the text
              [] file.damage = "number"     -> "TypeError"            \* for r in 5
              [] OTHER                      -> "AttributeError"       \* (r or {}).get on a str / int
  ELSE IF ~file.complete THEN "JSONDecodeError"
  ELSE "none"

\* the except clause of the load catches the exception class
Caught(v, err) ==
  IF v = "m4" THEN TRUE                                   \* except Exception
  ELSE err \in {"JSONDecodeError", "OSError"}             \* except (json.JSONDecodeError, OSError)

\* GradCafeScraper(): the state of the new object, or the exception leaves the constructor
Construct(v, file) ==
  LET err == LoadError(file)
      st  == LoadState(file)
  IN IF err = "none" \/ Caught(v, err)
     THEN [raised |-> FALSE, results |-> st.results, seen |-> st.seen, start_page |-> st.start_page]
     ELSE [raised |-> TRUE, results |-> <<>>, seen |-> {}, start_page |-> 1]

\* ------------------------------------------------------------ page source
\* Listing pages 1..K carry records.  A page past K has no rows ("empty"),
\* shows the records of page K again ("repeat"), or cannot be fetched ("fail").
PageMenu == { <<"101">>, <<"102", "101", "102">> }
Tails == {"empty", "repeat", "fail"}
Sources == UNION { { [K |-> k, data |-> d, tail |-> t] :
                       d \in [1..k -> PageMenu],
                       t \in IF k = 0 THEN Tails \ {"repeat"} ELSE Tails } : k \in 0..MaxK }

\* the main records of page p in row order
Content(src, p) ==
  IF p <= src.K THEN src.data[p]
  ELSE IF src.tail = "repeat" /\ src.K >= 1 THEN src.data[src.K]
  ELSE <<>>

\* _fetch_html(p) returns a body
Fetched(src, p) == p <= src.K \/ src.tail # "fail"

\* the page task of p raises instead of returning (for one, time.sleep of a
\* negative jitter in _fetch_html, which stands outside every try block)
TaskRaises(src, p) == p > src.K /\ src.tail = "raise"

\* the (entries, status) that _parse_page(p) returns; status "raised" when
\* the task raises and delivers nothing
ParseResult(src, p) ==
  IF TaskRaises(src, p) THEN [entries |-> <<>>, status |-> "raised"]
  ELSE IF ~Fetched(src, p) THEN [entries |-> <<>>, status |-> "error"]
  ELSE IF Content(src, p) = <<>> THEN [entries |-> <<>>, status |-> "empty"]
  ELSE [entries |-> Content(src, p), status |-> "ok"]

\* the periodic save without its page-count test
SavesNow_Never(npages, every) == FALSE

\* if pages_done % self.save_every_pages == 0: self.save_data()
SavesNow(npages, every) == npages % every = 0

\* fut.result() stands in a try block with `except Exception`
ResultGuarded(v) == v = "m4"

\* a save that writes only the newest record
SaveData_LastOnly(res) ==
  JsonFile(IF res = <<>> THEN <<>> ELSE <<res[Len(res)]>>)

\* save_data() as one step: json.dump(self.results) into the temporary file,
\* then os.replace onto the output file
SaveData(res) == JsonFile(res)

\* the loop test without the target
LoopGoes_NoTarget(inflight, n, t) == inflight # {}

\* while in_flight and len(self.results) < target
LoopGoes(inflight, n, t) == inflight # {} /\ n < t

\* a replacement that submits two pages
Submitted_Two(inflight, page) == inflight \cup {page, page + 1}

\* in_flight.add(ex.submit(self._parse_page, next_page))
Submitted(inflight, page) == inflight \cup {page}

\* max_consecutive_bad
MaxConsecutiveBad(v, w) ==
  IF v = "m4" THEN Max(MinBadCeiling, w * BadPerWorker) ELSE M5BadCeiling

\* ------------------------------------------------------------ crawl: Init
IdleFetch ==
  /\ max_retries = 0 /\ f_pc = "idle" /\ attempt = 0 /\ resp = 2
  /\ delays = <<>> /\ http_attempts = 0 /\ ret = "none"
IdleSave == s_pc = "idle" /\ old_disk = NoFile
IdleMerge == m_entries = <<>> /\ m_before = [results |-> <<>>, seen |-> {}]
IdleParse == body = NoBody /\ parsed = NotParsed
IdleDb ==
  /\ table = NoTable /\ txn = NoTxn /\ l_pc = "idle" /\ l_in = NoLoad
  /\ l_cleaned = <<>> /\ l_i = 0 /\ l_ret = 0 /\ l_before = NoTable /\ l_hist = <<>>
IdlePool == lock = "free" /\ task_pc = <<>> /\ t_pc = "idle"
IdleClean ==
  /\ c_pc = "idle" /\ c_data = <<>> /\ batch_size = 1 /\ c_i = 0 /\ use_api = FALSE
  /\ cache = <<>> /\ cleaned = <<>> /\ sent = <<>> /\ c_last = "none" /\ c_out = NoFile
IdleApp ==
  /\ is_pulling = FALSE /\ last_status = "Ready" /\ pull_lock = 0
  /\ jobs = [j \in JobIds |-> IdleJob] /\ reqs = [i \in ReqIds |-> NoReq]

\* GradCafeScraper() with no checkpoint file, then scrape_data(target) is entered
Init ==
  /\ variant \in Variants
  /\ max_workers \in 1..MaxWorkers
  /\ target \in 1..MaxTarget
  /\ save_every_pages \in 1..MaxSaveEvery
  /\ source \in Sources
  /\ disk = NoFile /\ tmp = NoFile
  /\ results = <<>> /\ seen_ids = {} /\ start_page = 1
  /\ pc = "prime" /\ next_page = 1 /\ pages_done = 0 /\ consecutive_bad = 0
  /\ in_flight = {} /\ done = {}
  /\ run = 1 /\ loaded = <<>>
  /\ IdleFetch /\ IdleSave /\ IdleMerge /\ IdleParse /\ IdleApp /\ IdleDb /\ IdlePool /\ IdleClean

\* ------------------------------------------------------------ crawl: actions
\* for _ in range(max_workers): in_flight.add(ex.submit(_parse_page, next_page))
Prime ==
  /\ pc = "prime"
  /\ in_flight' = next_page..(next_page + max_workers - 1)
  /\ next_page' = next_page + max_workers
  /\ pc' = "while"
  /\ UNCHANGED <<cleanVars, poolVars, dbVars, parseVars, appVars, crawlCfg, crawlObj, pages_done, consecutive_bad, done, crawlHist,
                 disk, tmp, fetchVars, saveVars, mergeVars>>

\* while in_flight and len(self.results) < target
WhileTest ==
  /\ pc = "while"
  /\ pc' = IF LoopGoes(in_flight, Len(results), target) THEN "wait" ELSE "exit"
  /\ UNCHANGED <<cleanVars, poolVars, dbVars, parseVars, appVars, crawlCfg, crawlObj, next_page, pages_done, consecutive_bad,
                 in_flight, done, crawlHist, disk, tmp,
                 fetchVars, saveVars, mergeVars>>

\* done, in_flight = wait(in_flight, timeout, FIRST_COMPLETED) returns the
\* tasks S that the worker threads have finished by now, in any order of pages
WaitDone(S) ==
  /\ pc = "wait"
  /\ S # {} /\ S \subseteq in_flight
  /\ done' = S
  /\ in_flight' = in_flight \ S
  /\ pc' = "for"
  /\ UNCHANGED <<cleanVars, poolVars, dbVars, parseVars, appVars, crawlCfg, crawlObj, next_page, pages_done, consecutive_bad,
                 crawlHist, disk, tmp, fetchVars, saveVars, mergeVars>>

\* no task finished within the timeout: done is empty and the loop starts over
WaitTimeout ==
  /\ pc = "wait"
  /\ done' = {}
  /\ pc' = "while"
  /\ UNCHANGED <<cleanVars, poolVars, dbVars, parseVars, appVars, crawlCfg, crawlObj, next_page, pages_done, consecutive_bad,
                 in_flight, crawlHist, disk, tmp, fetchVars, saveVars, mergeVars>>

\* one iteration of `for fut in done` for the future of page p
HandleDone(p) ==
  /\ pc = "for"
  /\ p \in done
  /\ LET r       == ParseResult(source, p)
         escapes == r.status = "raised" /\ ~ResultGuarded(variant)
         good    == r.status = "ok" /\ r.entries # <<>>
         merged  == IF good
                    THEN MergeEntries(variant, [results |-> results, seen |-> seen_ids], r.entries)
                    ELSE [results |-> results, seen |-> seen_ids]
         bad     == IF good THEN 0 ELSE consecutive_bad + 1
         npages  == pages_done + 1
         stop    == variant = "m4" /\ bad >= MaxConsecutiveBad("m4", max_workers)
         submit  == /\ ~stop
                    /\ Len(merged.results) < target
                    /\ (variant = "m5" => bad < MaxConsecutiveBad("m5", max_workers))
         rest    == IF stop THEN {} ELSE done \ {p}
     IN IF escapes
        THEN \* the exception of the task leaves fut.result(), the with block
             \* (shutdown) and scrape_data; the final save_data() is not reached
             /\ pages_done' = npages
             /\ in_flight' = {} /\ done' = {}
             /\ pc' = "raised"
             /\ UNCHANGED <<results, seen_ids, consecutive_bad, disk, next_page>>
        ELSE /\ submit => next_page <= MaxPage
             /\ pages_done' = npages
             /\ results' = merged.results
             /\ seen_ids' = merged.seen
             /\ consecutive_bad' = bad
             /\ disk' = IF SavesNow(npages, save_every_pages)
                        THEN SaveData(merged.results) ELSE disk
             /\ done' = rest
             /\ pc' = IF rest = {} THEN "while" ELSE "for"
             /\ in_flight' = IF stop THEN {}
                             ELSE IF submit THEN Submitted(in_flight, next_page)
                             ELSE in_flight
             /\ next_page' = IF submit THEN next_page + 1 ELSE next_page
  /\ UNCHANGED <<cleanVars, poolVars, dbVars, parseVars, appVars, crawlCfg, start_page, crawlHist, tmp, fetchVars, saveVars, mergeVars>>

\* leaving `with ThreadPoolExecutor` (shutdown waits for the tasks still
\* running and drops their results), then the final self.save_data()
Exit ==
  /\ pc = "exit"
  /\ in_flight' = {} /\ done' = {}
  /\ disk' = SaveData(results)
  /\ pc' = "done"
  /\ UNCHANGED <<cleanVars, poolVars, dbVars, parseVars, appVars, crawlCfg, crawlObj, next_page, pages_done, consecutive_bad,
                 crawlHist, tmp, fetchVars, saveVars, mergeVars>>

\* a new process: GradCafeScraper() loads the checkpoint, scrape_data(target) is entered
NewRun ==
  /\ pc = "done"
  /\ run < MaxRuns
  /\ run' = run + 1
  /\ LET st == Construct(variant, disk)
     IN /\ results' = st.results
        /\ seen_ids' = st.seen
        /\ start_page' = st.start_page
        /\ next_page' = st.start_page
        /\ loaded' = st.results
        /\ pc' = IF st.raised THEN "raised" ELSE "prime"
  /\ pages_done' = 0 /\ consecutive_bad' = 0
  /\ in_flight' = {} /\ done' = {}
  /\ UNCHANGED <<cleanVars, poolVars, dbVars, parseVars, appVars, crawlCfg, disk, tmp, fetchVars, saveVars, mergeVars>>

Next ==
  \/ Prime
  \/ WhileTest
  \/ \E S \in SUBSET in_flight : WaitDone(S)
  \/ WaitTimeout
  \/ \E p \in done : HandleDone(p)
  \/ Exit
  \/ NewRun

Spec == Init /\ [][Next]_vars

\* every main-thread step is eventually taken, and every task ends, so a
\* wait on a non-empty in_flight eventually returns a finished task
FairSpec ==
  /\ Spec
  /\ WF_vars(Prime) /\ WF_vars(WhileTest) /\ WF_vars(Exit)
  /\ SF_vars(\E S \in SUBSET in_flight : WaitDone(S))
  /\ WF_vars(\E p \in done : HandleDone(p))

\* ------------------------------------------------------------ crawl: claims

\* C1: in every state of every run, started from no checkpoint or from the
\* checkpoint a previous run wrote, no two records of `results` carry the
\* same result_id.
C1_UniqueIds ==
  \A i, j \in 1..Len(results) : i # j => results[i] # results[j]

\* a run resumed from a non-empty checkpoint has just handled a page with
\* records, all of them seen before, and has appended none of them
C1_Witness ==
  /\ run >= 2 /\ loaded # <<>> /\ pages_done >= 1 /\ consecutive_bad = 0
  /\ results = loaded

\* C3: when a run that was resumed from the checkpoint of a returned run
\* returns, it has appended nothing and its checkpoint holds the same set of
\* records.
C3_IdempotentResume ==
  (run >= 2 /\ pc = "done") =>
     /\ results = loaded
     /\ disk = JsonFile(disk.data) /\ Range(disk.data) = Range(loaded)

\* C5: with every page after page K empty, the loop is left short of the
\* target only with a bad streak of at least max(12, 4 x workers), and once
\* the streak has reached that ceiling no page is submitted and no
\* completion is handled in that run.
C5_BadPageTermination ==
  /\ [](source.tail = "empty" /\ pc = "exit" /\ Len(results) < target
          => consecutive_bad >= Max(12, 4 * max_workers))
  /\ [][(source.tail = "empty" /\ run' = run
           /\ consecutive_bad >= Max(12, 4 * max_workers))
          => (next_page' = next_page /\ pages_done' = pages_done)]_vars

NetError   == 0        \* urllib.error.URLError (connection, DNS)
OtherError == 1        \* any other exception (socket timeout, ...)
NoResp     == 2
Statuses   == {200, 403, 404, 429, 500, 501, 502, 503, 504}
Responses  == Statuses \cup {NetError, OtherError}
Jitters    == 0..JitterMax

\* (2 ** attempt) * 0.6 + random.uniform(0.0, 0.4), jitter j
Backoff_Flat(a, j) == BackoffBase + j
Backoff(a, j) == (2 ^ a) * BackoffBase + j

\* for attempt in range(max_retries + 1)
LoopRuns_OneMore(a, mr) == a <= mr + 1
LoopRuns(a, mr) == a <= mr

\* the except clause sleeps and continues (otherwise: return None)
Retries(v, r) ==
  IF v = "m4"
  THEN r \in {429, 500, 502, 503, 504} \/ r \in {NetError, OtherError}
  ELSE TRUE

IdleCrawl ==
  /\ max_workers = 1 /\ target = 1 /\ save_every_pages = 1
  /\ source = [K |-> 0, data |-> <<>>, tail |-> "empty"]
  /\ start_page = 1 /\ pc = "idle" /\ next_page = 1 /\ pages_done = 0
  /\ consecutive_bad = 0 /\ in_flight = {} /\ done = {}
  /\ run = 1 /\ loaded = <<>>

FetchInit ==
  /\ variant \in Variants
  /\ max_retries \in 0..MaxRetries
  /\ f_pc = "try" /\ attempt = 0 /\ resp = NoResp
  /\ delays = <<>> /\ http_attempts = 0 /\ ret = "none"
  /\ IdleCrawl /\ results = <<>> /\ seen_ids = {}
  /\ disk = NoFile /\ tmp = NoFile /\ IdleSave /\ IdleMerge /\ IdleParse /\ IdleApp /\ IdleDb /\ IdlePool /\ IdleClean

\* one pass of the retry loop: urlopen answers r; j is the jitter of the sleep
Attempt(r, j) ==
  /\ f_pc = "try"
  /\ LoopRuns(attempt, max_retries)
  /\ http_attempts' = http_attempts + 1
  /\ resp' = r
  /\ IF r = 200
     THEN /\ ret' = "body" /\ f_pc' = "returned"
          /\ UNCHANGED <<attempt, delays>>
     ELSE IF Retries(variant, r)
     THEN /\ delays' = Append(delays, Backoff(attempt, j))
          /\ attempt' = attempt + 1
          /\ UNCHANGED <<ret, f_pc>>
     ELSE /\ ret' = "None" /\ f_pc' = "returned"
          /\ UNCHANGED <<attempt, delays>>
  /\ UNCHANGED <<cleanVars, poolVars, dbVars, parseVars, appVars, crawlCfg, crawlObj, crawlLoc, crawlHist, disk, tmp, max_retries,
                 saveVars, mergeVars>>

\* the loop is exhausted: return None
LoopEnd ==
  /\ f_pc = "try"
  /\ ~LoopRuns(attempt, max_retries)
  /\ ret' = "None" /\ f_pc' = "returned"
  /\ UNCHANGED <<cleanVars, poolVars, dbVars, parseVars, appVars, crawlCfg, crawlObj, crawlLoc, crawlHist, disk, tmp, max_retries,
                 attempt, resp, delays, http_attempts, saveVars, mergeVars>>

FetchNext ==
  \/ \E r \in Responses, j \in Jitters : Attempt(r, j)
  \/ LoopEnd

FetchSpec == FetchInit /\ [][FetchNext]_vars

\* C7: one call makes at most max_retries + 1 HTTP attempts, and a call that
\* has returned without a 200 answer has returned no body.
C7_AttemptBound ==
  /\ http_attempts <= max_retries + 1
  /\ (f_pc = "returned" /\ resp # 200) => ret = "None"
  /\ (f_pc = "returned" /\ ret = "body") => resp = 200

\* every attempt failed with a retryable error and the call gave up
C7_Witness ==
  /\ max_retries >= 1 /\ http_attempts = max_retries + 1
  /\ Len(delays) = max_retries + 1
  /\ f_pc = "returned" /\ ret = "None"

\* C8: the k-th sleep of a call follows attempt k-1; it is the base delay
\* 0.6 * 2^(k-1) plus a jitter in [0, 0.4], hence at least the base delay of
\* the retry before it.
C8_BackoffMonotone ==
  \A k \in 1..Len(delays) :
     /\ delays[k] - 6 * (2 ^ (k - 1)) \in 0..4
     /\ k >= 2 => delays[k] >= 6 * (2 ^ (k - 2))

\* three sleeps were taken, the last with less jitter than the one before
C8_Witness ==
  /\ Len(delays) >= 3
  /\ delays[3] - 24 < delays[2] - 12

\* C9: after a 4xx answer other than 429 the call sleeps no backoff and
\* makes no further attempt.
C9_NoRetryOnClientError ==
  [][(resp \in 400..499 /\ resp # 429)
       => (http_attempts' = http_attempts /\ delays' = delays)]_vars

\* C10: a call whose last answer was 429, any 5xx status or a network-level
\* error has returned only after max_retries + 1 attempts.
C10_RetriesTransient ==
  (f_pc = "returned" /\ (resp = 429 \/ resp \in 500..599 \/ resp \in {NetError, OtherError}))
     => http_attempts = max_retries + 1

\* ============================================================ save_data
\* the collections handed to save_data
Collections == UNION { [1..n -> Ids] : n \in 0..MaxSaveLen }

\* open(tmp, "w") truncates the temporary file; the checkpoint is untouched
OpenTmp_InPlace(d, t) == [disk |-> PartialFile(<<>>), tmp |-> t]
OpenTmp(d, t) == [disk |-> d, tmp |-> PartialFile(<<>>)]

\* save_data is entered with some collection; the checkpoint is absent or
\* holds the array an earlier save wrote
SaveInit ==
  /\ variant \in Variants
  /\ results \in Collections
  /\ disk \in {NoFile} \cup {JsonFile(d) : d \in Collections}
  /\ tmp = NoFile
  /\ s_pc = "open" /\ old_disk = disk
  /\ IdleCrawl /\ seen_ids = {} /\ IdleFetch /\ IdleMerge /\ IdleParse /\ IdleApp /\ IdleDb /\ IdlePool /\ IdleClean

\* with open(tmp, "w") as f
SaveOpen ==
  /\ s_pc = "open"
  /\ LET fs == OpenTmp(disk, tmp)
     IN disk' = fs.disk /\ tmp' = fs.tmp
  /\ s_pc' = "write"
  /\ UNCHANGED <<cleanVars, poolVars, dbVars, parseVars, appVars, crawlCfg, crawlObj, crawlLoc, crawlHist, fetchVars, old_disk, mergeVars>>

\* json.dump: the next record reaches the file
SaveWrite ==
  /\ s_pc = "write"
  /\ Len(tmp.data) < Len(results)
  /\ tmp' = PartialFile(Append(tmp.data, results[Len(tmp.data) + 1]))
  /\ UNCHANGED <<cleanVars, poolVars, dbVars, parseVars, appVars, crawlCfg, crawlObj, crawlLoc, crawlHist, disk, fetchVars, saveVars, mergeVars>>

\* json.dump: the closing bracket is written and the file is closed
SaveClose ==
  /\ s_pc = "write"
  /\ Len(tmp.data) = Len(results)
  /\ tmp' = JsonFile(tmp.data)
  /\ s_pc' = "replace"
  /\ UNCHANGED <<cleanVars, poolVars, dbVars, parseVars, appVars, crawlCfg, crawlObj, crawlLoc, crawlHist, disk, fetchVars, old_disk, mergeVars>>

\* os.replace(tmp, self.output_file)
SaveReplace ==
  /\ s_pc = "replace"
  /\ disk' = tmp
  /\ tmp' = NoFile
  /\ s_pc' = "returned"
  /\ UNCHANGED <<cleanVars, poolVars, dbVars, parseVars, appVars, crawlCfg, crawlObj, crawlLoc, crawlHist, fetchVars, old_disk, mergeVars>>

\* the save is interrupted (signal, kill, I/O error) before its next step
SaveInterrupt ==
  /\ s_pc \in {"open", "write", "replace"}
  /\ s_pc' = "interrupted"
  /\ UNCHANGED <<cleanVars, poolVars, dbVars, parseVars, appVars, crawlCfg, crawlObj, crawlLoc, crawlHist, disk, tmp, fetchVars,
                 old_disk, mergeVars>>

\* a later save_data call, of the same or another collection
SaveAgain(c) ==
  /\ s_pc \in {"returned", "interrupted"}
  /\ results' = c
  /\ old_disk' = disk
  /\ s_pc' = "open"
  /\ UNCHANGED <<cleanVars, poolVars, dbVars, parseVars, appVars, crawlCfg, seen_ids, start_page, crawlLoc, crawlHist, disk, tmp,
                 fetchVars, mergeVars>>

SaveNext ==
  \/ SaveOpen
  \/ SaveWrite
  \/ SaveClose
  \/ SaveReplace
  \/ SaveInterrupt
  \/ \E c \in Collections : SaveAgain(c)

SaveSpec == SaveInit /\ [][SaveNext]_vars

\* C4: at every step of a save, interrupted or not, the checkpoint path holds
\* what it held when the save began (a complete array, or no file yet) or the
\* complete array of the collection being saved; it never holds a partial one.
C4_AtomicPersistence ==
  /\ disk = old_disk \/ disk = JsonFile(results)
  /\ disk.exists => disk.complete

\* a save was interrupted half-way through writing: the temporary file is
\* partial, the checkpoint still holds the other, earlier array
C4_Witness ==
  /\ s_pc = "interrupted"
  /\ tmp.exists /\ ~tmp.complete /\ Len(tmp.data) >= 1
  /\ disk.exists /\ disk.data # results

\* ============================================================ merge step
\* entries as a page task may hand them to the merge step
EntryValues == Ids \cup {Null, Empty}
EntryLists == UNION { [1..n -> EntryValues] : n \in 1..2 }

MergeInit ==
  /\ variant \in Variants
  /\ results = <<>> /\ seen_ids = {}
  /\ m_entries = <<>> /\ m_before = [results |-> <<>>, seen |-> {}]
  /\ IdleCrawl /\ disk = NoFile /\ tmp = NoFile /\ IdleFetch /\ IdleSave /\ IdleParse /\ IdleApp /\ IdleDb /\ IdlePool /\ IdleClean

\* with self._lock: for e in entries: ...
MergePage(entries) ==
  /\ LET st == MergeEntries(variant, [results |-> results, seen |-> seen_ids], entries)
     IN results' = st.results /\ seen_ids' = st.seen
  /\ m_entries' = entries
  /\ m_before' = [results |-> results, seen |-> seen_ids]
  /\ UNCHANGED <<cleanVars, poolVars, dbVars, parseVars, appVars, crawlCfg, start_page, crawlLoc, crawlHist, disk, tmp, fetchVars, saveVars>>

MergeNext == \E entries \in EntryLists : MergePage(entries)

MergeSpec == MergeInit /\ [][MergeNext]_vars

Records(n) == [i \in 1..n |-> ToString(i)]

Checkpoints ==
  {NoFile} \cup {JsonFile(Records(n)) : n \in 0..MaxCkpt}
           \cup {PartialFile(Records(n)) : n \in 0..1}
           \cup {DamagedFile(k) : k \in Damages}

LoadInit ==
  /\ variant \in Variants
  /\ max_workers \in 1..MaxWorkers
  /\ target = 1 /\ save_every_pages = 1
  /\ source = [K |-> 0, data |-> <<>>, tail |-> "empty"]
  /\ disk \in Checkpoints /\ tmp = NoFile
  /\ results = <<>> /\ seen_ids = {} /\ start_page = 1
  /\ pc = "done" /\ next_page = 1 /\ pages_done = 0 /\ consecutive_bad = 0
  /\ in_flight = {} /\ done = {}
  /\ run = 1 /\ loaded = <<>>
  /\ IdleFetch /\ IdleSave /\ IdleMerge /\ IdleParse /\ IdleApp /\ IdleDb /\ IdlePool /\ IdleClean

LoadNext == NewRun \/ Prime

LoadSpec == LoadInit /\ [][LoadNext]_vars

\* C11: in every variant, when the checkpoint file exists and loading it fails
\* (undecodable bytes, invalid JSON, JSON that is not a list of record
\* objects), the constructor raises nothing and the new scraper has an empty
\* collection, an empty seen-id set and start page 1.
C11_CorruptCheckpointStartsFresh ==
  (run = 2 /\ disk.exists /\ LoadError(disk) # "none")
     => (pc # "raised" /\ results = <<>> /\ seen_ids = {} /\ start_page = 1)

\* C17: after a checkpoint of n records has loaded, the first page submitted
\* is the q + 1 with 20 q <= n < 20 (q + 1); with no checkpoint file it is 1.
C17_ResumePage ==
  (run = 2 /\ pc = "while" /\ pages_done = 0 /\ LoadError(disk) = "none")
     => LET first == CHOOSE p \in in_flight : \A q \in in_flight : p <= q
            n     == Len(disk.data)
        IN /\ PageSizeGuess * (first - 1) <= n
           /\ n < PageSizeGuess * first
           /\ ~disk.exists => first = 1

C17_Witness ==
  /\ run = 2 /\ pc = "while" /\ pages_done = 0
  /\ disk.exists /\ Len(loaded) = 2 * PageSizeGuess
  /\ 3 \in in_flight /\ 2 \notin in_flight

\* ------------------------------------------------------------ failing page tasks
\* The crawl on a site whose pages past K fail to fetch or make the page
\* task raise.
TaskSources == UNION { { [K |-> k, data |-> d, tail |-> t] :
                           d \in [1..k -> PageMenu], t \in {"fail", "raise"} } : k \in 0..MaxK }

TaskInit ==
  /\ variant \in Variants
  /\ max_workers \in 1..MaxWorkers
  /\ target \in 1..MaxTarget
  /\ save_every_pages \in 1..MaxSaveEvery
  /\ source \in TaskSources
  /\ disk = NoFile /\ tmp = NoFile
  /\ results = <<>> /\ seen_ids = {} /\ start_page = 1
  /\ pc = "prime" /\ next_page = 1 /\ pages_done = 0 /\ consecutive_bad = 0
  /\ in_flight = {} /\ done = {}
  /\ run = 1 /\ loaded = <<>>
  /\ IdleFetch /\ IdleSave /\ IdleMerge /\ IdleParse /\ IdleApp /\ IdleDb /\ IdlePool /\ IdleClean

TaskSpec == TaskInit /\ [][Next]_vars

\* every page among the completed tasks failed to fetch or raised
AllDoneFailed == \A p \in done : ParseResult(source, p).status \in {"error", "raised"}

\* C12: no page outcome propagates out of scrape_data, and a page whose fetch
\* failed or whose task raised counts as one completed bad page, after which
\* (below the bad-page ceiling and the target) the next page number is submitted.
C12_PageFailureContained ==
  /\ [](pc # "raised")
  /\ [][ (pc = "for" /\ AllDoneFailed /\ pages_done' # pages_done)
           => /\ pages_done' = pages_done + 1
              /\ consecutive_bad' = consecutive_bad + 1
              /\ (consecutive_bad' < MaxConsecutiveBad(variant, max_workers)
                     /\ Len(results) < target)
                   => (next_page \in in_flight' /\ next_page' = next_page + 1) ]_vars

\* ------------------------------------------------------------ _parse_page
\* A row of the tbody: the number of its direct td cells, whether it holds a
\* link matched by RESULT_HREF_RE, and what it holds besides:
\*   "blank"    no text, no <p>          "text"     text, no <p>
\*   "comment"  a <p> with text          "emptyp"   a <p> without text, no text
RowKinds == [cells : {1, MinCells}, link : BOOLEAN,
             holds : {"blank", "text", "comment", "emptyp"}]

RowLists == UNION { [1..n -> RowKinds] : n \in 0..MaxRows }
Bodies == {NoBody} \cup { [tbody |-> TRUE, rows |-> rs] : rs \in RowLists }

\* nxt.get_text(" ", strip=True) is not empty
HasText(r) == r.holds \in {"text", "comment"}

\* the main-row test with the link test left out
IsMain_CellsOnly(r) == r.cells >= MinCells

\* len(tds) >= 4 and tr.find("a", href=RESULT_HREF_RE)
IsMain(r) == r.cells >= MinCells /\ r.link

\* the comment after row r of the group, c the comment so far (0: "")
CommentAfter(v, r, j, c) ==
  IF v = "m4" THEN (IF r.holds = "comment" THEN j ELSE c)    \* if p and p.get_text(strip=True)
  ELSE IF r.holds = "comment" THEN j                          \* if nxt.find("p")
  ELSE IF r.holds = "emptyp" THEN 0
  ELSE c

\* the detail loop that appends no text
BlobAfter_Drop(r, j, blob) == blob

\* txt = nxt.get_text(" ", strip=True); if txt: detail_text_chunks.append(txt)
BlobAfter(r, j, blob) == IF HasText(r) THEN Append(blob, j) ELSE blob

RECURSIVE DetailRows(_, _, _, _)
\* the inner loop from row j on; acc = [blob, comment, next]: blob is the list
\* of the rows whose text was appended, comment the row whose <p> is the comment
DetailRows(v, rows, j, acc) ==
  IF j > Len(rows) \/ IsMain(rows[j]) THEN [acc EXCEPT !.next = j]
  ELSE DetailRows(v, rows, j + 1,
                  [blob    |-> BlobAfter(rows[j], j, acc.blob),
                   comment |-> CommentAfter(v, rows[j], j, acc.comment),
                   next    |-> j])

RECURSIVE ParseRows(_, _, _, _)
\* the outer loop from row i on; an entry names its main row
ParseRows(v, rows, i, entries) ==
  IF i > Len(rows) THEN entries
  ELSE IF ~IsMain(rows[i]) THEN ParseRows(v, rows, i + 1, entries)
  ELSE LET d == DetailRows(v, rows, i + 1, [blob |-> <<>>, comment |-> 0, next |-> i + 1])
       IN ParseRows(v, rows, d.next,
                    Append(entries, [row |-> i, blob |-> d.blob, comment |-> d.comment]))

\* `if not rows: return page_num, [], "empty"` is in the code
RowsChecked(v) == v = "m4"

\* the (entries, status) that _parse_page returns for a fetched body
ParsePage(v, b) ==
  IF ~b.tbody THEN [entries |-> <<>>, status |-> "empty"]
  ELSE IF b.rows = <<>> /\ RowsChecked(v) THEN [entries |-> <<>>, status |-> "empty"]
  ELSE [entries |-> ParseRows(v, b.rows, 1, <<>>), status |-> "ok"]

ParseInit ==
  /\ variant \in Variants
  /\ body \in Bodies /\ parsed = NotParsed
  /\ max_workers = 1 /\ target = 1 /\ save_every_pages = 1
  /\ source = [K |-> 0, data |-> <<>>, tail |-> "empty"]
  /\ IdleCrawl /\ results = <<>> /\ seen_ids = {}
  /\ disk = NoFile /\ tmp = NoFile
  /\ IdleFetch /\ IdleSave /\ IdleMerge /\ IdleApp /\ IdleDb /\ IdlePool /\ IdleClean

DoParse ==
  /\ parsed = NotParsed
  /\ parsed' = ParsePage(variant, body)
  /\ UNCHANGED <<cleanVars, poolVars, dbVars, scraperVars, appVars, body>>

ParseNext == DoParse

ParseSpec == ParseInit /\ [][ParseNext]_vars

\* C14: for a body with no tbody, or with a tbody that has no direct rows,
\* _parse_page returns no records and the outcome "empty" in every variant.
C14_EmptyOutcome ==
  (parsed # NotParsed /\ (~body.tbody \/ body.rows = <<>>))
     => parsed = [entries |-> <<>>, status |-> "empty"]

\* indices of the main rows, and of the rows of the group of main row i
MainRows == {i \in 1..Len(body.rows) : body.rows[i].cells >= MinCells /\ body.rows[i].link}
GroupOf(i) == {j \in (i + 1)..Len(body.rows) : \A m \in MainRows : m <= i \/ m > j}
Increasing(q) == \A a, b \in 1..Len(q) : a < b => q[a] < q[b]

\* C15: one record per main row, in row order; the blob of a record is made
\* of exactly the rows with text between its main row and the next main row
\* (or the end); a row before the first main row gives no record and is in
\* no blob and no comment.
C15_RowGrouping ==
  parsed.status = "ok" =>
    LET es == parsed.entries
    IN /\ Len(es) = Cardinality(MainRows)
       /\ {es[k].row : k \in 1..Len(es)} = MainRows
       /\ \A a, b \in 1..Len(es) : a < b => es[a].row < es[b].row
       /\ \A k \in 1..Len(es) :
             /\ Range(es[k].blob) = {j \in GroupOf(es[k].row) : HasText(body.rows[j])}
             /\ Increasing(es[k].blob)
             /\ es[k].comment \in GroupOf(es[k].row) \cup {0}
       /\ \A j \in 1..Len(body.rows) :
             (\A m \in MainRows : j < m)
               => \A k \in 1..Len(es) :
                    es[k].row # j /\ j \notin Range(es[k].blob) /\ es[k].comment # j

\* a row with text and a link in fewer than 4 cells, a main row, a detail row
C15_Witness ==
  /\ parsed.status = "ok" /\ Len(body.rows) = 3
  /\ body.rows[1] = [cells |-> 1, link |-> TRUE, holds |-> "text"]
  /\ IsMain(body.rows[2]) /\ body.rows[3].holds = "comment" /\ ~IsMain(body.rows[3])
  /\ parsed.entries = <<[row |-> 2, blob |-> <<3>>, comment |-> 3]>>

\* rows with fewer than 4 cells and no link
NoiseRows == {j \in 1..Len(body.rows) : body.rows[j].cells < MinCells /\ ~body.rows[j].link}

AppVariants == {"m3", "m4", "m5"}

\* values of _last_status / _last_log / STATE["last_status"], by their first words
\* module_4 (and module_5, with the same texts)
St4 ==
  [ Starting |-> "Starting...",
    Step1 |-> "Step 1/3: Scraping new data...",
    NoScrape |-> "Warning: scrape.py not found. Skipping scrape.",
    Step2 |-> "Step 2/3: Cleaning data with LLM...",
    NoClean |-> "Warning: clean.py not found. Skipping clean.",
    Step3 |-> "Step 3/3: Loading data into PostgreSQL...",
    Success |-> "Success! Pipeline complete.",
    NoJson |-> "Error: No JSON data file found.",
    Error |-> "Error: " ]
\* module_5: one except clause per exception class
St5 ==
  [ SubprocError |-> "Subprocess Error: ",
    FileError |-> "File Error: ",
    Unexpected |-> "Unexpected Error: " ]
\* module_3: _last_log
St3 ==
  [ Starting |-> "Starting Pull Data",
    NoJson |-> "I couldn't find the input JSON file.",
    Loading |-> "Loading data from",
    Done |-> "Done. Loaded",
    Failed |-> "Pull Data failed with an error" ]

\* exception classes a pipeline step raises
JobErrors == {"CalledProcessError", "IOError", "Exception"}

\* the status written by the except clause that takes the exception
ExceptStatus(v, exc) ==
  IF v = "m3" THEN St3.Failed
  ELSE IF v = "m4" THEN St4.Error
  ELSE IF exc = "CalledProcessError" THEN St5.SubprocError
  ELSE IF exc = "IOError" THEN St5.FileError
  ELSE St5.Unexpected

\* the job with an except clause for subprocess errors only
JobCatches_SubprocessOnly(v, exc) == exc = "CalledProcessError"

\* some except clause of _run_pull_job takes the exception
JobCatches(v, exc) == exc \in JobErrors

\* pull_data with its busy test left out
PullBusy_Never(flag) == FALSE

\* pull_data: if _is_pulling
PullBusy(flag) == flag

\* update_analysis with its busy test left out
UpdateBusy_Never(flag) == FALSE

\* update_analysis: if _is_pulling
UpdateBusy(flag) == flag

\* the finally clause takes _pull_lock before it clears the flag
FinallyLocks(v) == v # "m3"

\* who holds _pull_lock: 0 nobody, i the handler i, MaxReqs + j the job j
ReqHolder(i) == i
JobHolder(j) == MaxReqs + j

At(j, where) == jobs[j].pc = where
JobTo(j, where) == jobs' = [jobs EXCEPT ![j].pc = where]
JobRaise(j, exc) == jobs' = [jobs EXCEPT ![j] = [pc |-> "except", exc |-> exc]]
ReqTo(i, where) == reqs' = [reqs EXCEPT ![i].pc = where]
ReqReturn(i, code) == reqs' = [reqs EXCEPT ![i].pc = "returned", ![i].code = code]

AppInit ==
  /\ variant \in AppVariants
  /\ is_pulling = FALSE /\ pull_lock = 0
  /\ last_status = IF variant = "m3" THEN "" ELSE "Ready"
  /\ jobs = [j \in JobIds |-> IdleJob] /\ reqs = [i \in ReqIds |-> NoReq]
  /\ max_workers = 1 /\ target = 1 /\ save_every_pages = 1
  /\ source = [K |-> 0, data |-> <<>>, tail |-> "empty"]
  /\ IdleCrawl /\ results = <<>> /\ seen_ids = {}
  /\ disk = NoFile /\ tmp = NoFile
  /\ IdleFetch /\ IdleSave /\ IdleMerge /\ IdleParse /\ IdleDb /\ IdlePool /\ IdleClean

\* a client posts to /pull-data or /update-analysis; handler i takes the request
Request(i, kind) ==
  /\ reqs[i].pc \in {"idle", "returned"}
  /\ reqs' = [reqs EXCEPT ![i] = [kind |-> kind, code |-> 0, started |-> 0,
                                  pc |-> IF kind = "pull" THEN "enter" ELSE "check"]]
  /\ UNCHANGED <<cleanVars, poolVars, dbVars, scraperVars, parseVars, is_pulling, last_status, pull_lock, jobs>>

\* pull_data: with _pull_lock
PullAcquire(i) ==
  /\ reqs[i].kind = "pull" /\ reqs[i].pc = "enter"
  /\ pull_lock = 0
  /\ pull_lock' = ReqHolder(i)
  /\ ReqTo(i, "check")
  /\ UNCHANGED <<cleanVars, poolVars, dbVars, scraperVars, parseVars, is_pulling, last_status, jobs>>

\* pull_data: if _is_pulling: return 409 (leaving the with block)
PullCheck(i) ==
  /\ reqs[i].kind = "pull" /\ reqs[i].pc = "check"
  /\ IF PullBusy(is_pulling)
     THEN /\ ReqReturn(i, 409)
          /\ pull_lock' = 0
     ELSE /\ ReqTo(i, "set_flag")
          /\ UNCHANGED pull_lock
  /\ UNCHANGED <<cleanVars, poolVars, dbVars, scraperVars, parseVars, is_pulling, last_status, jobs>>

\* pull_data: _is_pulling = True
PullSetFlag(i) ==
  /\ reqs[i].kind = "pull" /\ reqs[i].pc = "set_flag"
  /\ is_pulling' = TRUE
  /\ ReqTo(i, "set_status")
  /\ UNCHANGED <<cleanVars, poolVars, dbVars, scraperVars, parseVars, last_status, pull_lock, jobs>>

\* pull_data: _last_status = "Starting..." (module_3: _last_log = "Starting Pull Data...")
PullSetStatus(i) ==
  /\ reqs[i].kind = "pull" /\ reqs[i].pc = "set_status"
  /\ last_status' = IF variant = "m3" THEN St3.Starting ELSE St4.Starting
  /\ ReqTo(i, "start")
  /\ UNCHANGED <<cleanVars, poolVars, dbVars, scraperVars, parseVars, is_pulling, pull_lock, jobs>>

\* pull_data: threading.Thread(target=_run_pull_job, ...).start()
PullStart(i, j) ==
  /\ reqs[i].kind = "pull" /\ reqs[i].pc = "start"
  /\ At(j, "idle")
  /\ jobs' = [jobs EXCEPT ![j] = [pc |-> IF variant = "m3" THEN "load" ELSE "scrape",
                                  exc |-> "none"]]
  /\ reqs' = [reqs EXCEPT ![i].pc = "release", ![i].started = @ + 1]
  /\ UNCHANGED <<cleanVars, poolVars, dbVars, scraperVars, parseVars, is_pulling, last_status, pull_lock>>

\* pull_data: the with block ends, return jsonify({"ok": True, ...})
PullRelease(i) ==
  /\ reqs[i].kind = "pull" /\ reqs[i].pc = "release"
  /\ pull_lock' = 0
  /\ ReqReturn(i, 200)
  /\ UNCHANGED <<cleanVars, poolVars, dbVars, scraperVars, parseVars, is_pulling, last_status, jobs>>

\* update_analysis: if _is_pulling: return 409
UpdateCheck(i) ==
  /\ reqs[i].kind = "update" /\ reqs[i].pc = "check"
  /\ IF UpdateBusy(is_pulling) THEN ReqReturn(i, 409) ELSE ReqTo(i, "query")
  /\ UNCHANGED <<cleanVars, poolVars, dbVars, scraperVars, parseVars, is_pulling, last_status, pull_lock, jobs>>

\* update_analysis: data = get_analysis(); the queries succeed or raise (500)
UpdateQuery(i, ok) ==
  /\ reqs[i].kind = "update" /\ reqs[i].pc = "query"
  /\ IF ok THEN ReqTo(i, "respond") ELSE ReqReturn(i, 500)
  /\ UNCHANGED <<cleanVars, poolVars, dbVars, scraperVars, parseVars, is_pulling, last_status, pull_lock, jobs>>

\* update_analysis: return jsonify({"ok": True, ..., "status": _last_status})
UpdateRespond(i) ==
  /\ reqs[i].kind = "update" /\ reqs[i].pc = "respond"
  /\ ReqReturn(i, 200)
  /\ UNCHANGED <<cleanVars, poolVars, dbVars, scraperVars, parseVars, is_pulling, last_status, pull_lock, jobs>>

\* _run_pull_job, step 1 or 2: if os.path.exists(script): status, else warning
JobScript(j, found) ==
  /\ variant # "m3"
  /\ At(j, "scrape") \/ At(j, "clean")
  /\ last_status' = IF At(j, "scrape") THEN (IF found THEN St4.Step1 ELSE St4.NoScrape)
                                       ELSE (IF found THEN St4.Step2 ELSE St4.NoClean)
  /\ JobTo(j, IF At(j, "scrape") THEN (IF found THEN "scrape_run" ELSE "clean")
                                 ELSE (IF found THEN "clean_run" ELSE "load_status"))
  /\ UNCHANGED <<cleanVars, poolVars, dbVars, scraperVars, parseVars, is_pulling, pull_lock, reqs>>

\* subprocess.run(["python", script], check=True) returns
JobRunOk(j) ==
  /\ At(j, "scrape_run") \/ At(j, "clean_run")
  /\ JobTo(j, IF At(j, "scrape_run") THEN "clean" ELSE "load_status")
  /\ UNCHANGED <<cleanVars, poolVars, dbVars, scraperVars, parseVars, is_pulling, last_status, pull_lock, reqs>>

\* subprocess.run or load_json_to_db raises
JobRaises(j, exc) ==
  /\ At(j, "scrape_run") \/ At(j, "clean_run") \/ At(j, "loading")
  /\ JobRaise(j, exc)
  /\ UNCHANGED <<cleanVars, poolVars, dbVars, scraperVars, parseVars, is_pulling, last_status, pull_lock, reqs>>

\* _last_status = "Step 3/3: Loading data into PostgreSQL..."
JobLoadStatus(j) ==
  /\ At(j, "load_status")
  /\ last_status' = St4.Step3
  /\ JobTo(j, "load")
  /\ UNCHANGED <<cleanVars, poolVars, dbVars, scraperVars, parseVars, is_pulling, pull_lock, reqs>>

\* if os.path.exists(json_path): ... else: the no-file message
JobLoadTest(j, found) ==
  /\ At(j, "load")
  /\ last_status' = IF found THEN (IF variant = "m3" THEN St3.Loading ELSE last_status)
                    ELSE (IF variant = "m3" THEN St3.NoJson ELSE St4.NoJson)
  /\ JobTo(j, IF found THEN "loading" ELSE "finally")
  /\ UNCHANGED <<cleanVars, poolVars, dbVars, scraperVars, parseVars, is_pulling, pull_lock, reqs>>

\* n = load_json_to_db(...) returns; the success message
JobLoaded(j) ==
  /\ At(j, "loading")
  /\ last_status' = IF variant = "m3" THEN St3.Done ELSE St4.Success
  /\ JobTo(j, "finally")
  /\ UNCHANGED <<cleanVars, poolVars, dbVars, scraperVars, parseVars, is_pulling, pull_lock, reqs>>

\* the except clauses
JobExcept(j) ==
  /\ At(j, "except")
  /\ last_status' = IF JobCatches(variant, jobs[j].exc)
                    THEN ExceptStatus(variant, jobs[j].exc) ELSE last_status
  /\ JobTo(j, "finally")
  /\ UNCHANGED <<cleanVars, poolVars, dbVars, scraperVars, parseVars, is_pulling, pull_lock, reqs>>

\* the exception of job j reaches the end of _run_pull_job
Escapes(j) == jobs[j].exc # "none" /\ ~JobCatches(variant, jobs[j].exc)

\* finally: module_3 clears the flag and ends; the others take _pull_lock
JobFinally(j) ==
  /\ At(j, "finally")
  /\ IF FinallyLocks(variant)
     THEN /\ pull_lock = 0
          /\ pull_lock' = JobHolder(j)
          /\ JobTo(j, "clear")
          /\ UNCHANGED is_pulling
     ELSE /\ is_pulling' = FALSE
          /\ jobs' = [jobs EXCEPT ![j] = IF Escapes(j) THEN [@ EXCEPT !.pc = "escaped"]
                                         ELSE IdleJob]
          /\ UNCHANGED pull_lock
  /\ UNCHANGED <<cleanVars, poolVars, dbVars, scraperVars, parseVars, last_status, reqs>>

\* finally: _is_pulling = False, under the lock
JobClear(j) ==
  /\ At(j, "clear")
  /\ is_pulling' = FALSE
  /\ JobTo(j, "release")
  /\ UNCHANGED <<cleanVars, poolVars, dbVars, scraperVars, parseVars, last_status, pull_lock, reqs>>

\* finally: the with block ends, the thread ends
JobRelease(j) ==
  /\ At(j, "release")
  /\ pull_lock' = 0
  /\ jobs' = [jobs EXCEPT ![j] = IF Escapes(j) THEN [@ EXCEPT !.pc = "escaped"]
                                 ELSE IdleJob]
  /\ UNCHANGED <<cleanVars, poolVars, dbVars, scraperVars, parseVars, is_pulling, last_status, reqs>>

AppNext ==
  \/ \E i \in ReqIds, kind \in {"pull", "update"} : Request(i, kind)
  \/ \E i \in ReqIds : PullAcquire(i)
  \/ \E i \in ReqIds : PullCheck(i)
  \/ \E i \in ReqIds : PullSetFlag(i)
  \/ \E i \in ReqIds : PullSetStatus(i)
  \/ \E i \in ReqIds, j \in JobIds : PullStart(i, j)
  \/ \E i \in ReqIds : PullRelease(i)
  \/ \E i \in ReqIds : UpdateCheck(i)
  \/ \E i \in ReqIds, ok \in BOOLEAN : UpdateQuery(i, ok)
  \/ \E i \in ReqIds : UpdateRespond(i)
  \/ \E j \in JobIds, found \in BOOLEAN : JobScript(j, found)
  \/ \E j \in JobIds : JobRunOk(j)
  \/ \E j \in JobIds, exc \in JobErrors : JobRaises(j, exc)
  \/ \E j \in JobIds : JobLoadStatus(j)
  \/ \E j \in JobIds, found \in BOOLEAN : JobLoadTest(j, found)
  \/ \E j \in JobIds : JobLoaded(j)
  \/ \E j \in JobIds : JobExcept(j)
  \/ \E j \in JobIds : JobFinally(j)
  \/ \E j \in JobIds : JobClear(j)
  \/ \E j \in JobIds : JobRelease(j)

AppSpec == AppInit /\ [][AppNext]_vars

\* C18: a handler of /pull-data or /update-analysis that tests the flag while
\* is_pulling is true answers 409 (ok = false) in that step, starts no job,
\* does not go on to the analysis query, and leaves is_pulling and
\* last_status as they are.
C18_BusyGating ==
  [][ \A i \in ReqIds :
        (is_pulling /\ reqs[i].pc = "check" /\ reqs'[i] # reqs[i])
          => /\ reqs'[i].pc = "returned" /\ reqs'[i].code = 409
             /\ reqs'[i].started = 0
             /\ jobs' = jobs
             /\ is_pulling' = is_pulling
             /\ last_status' = last_status ]_vars

\* both routes refused while the job is loading
C18_Witness ==
  /\ is_pulling /\ \E j \in JobIds : At(j, "loading")
  /\ \E i, k \in ReqIds :
       /\ reqs[i] = [kind |-> "pull", pc |-> "returned", code |-> 409, started |-> 0]
       /\ reqs[k] = [kind |-> "update", pc |-> "returned", code |-> 409, started |-> 0]

\* jobs whose thread has code of _run_pull_job left to run
Running == {j \in JobIds : ~At(j, "idle")}

\* C19: at most one pull job runs at any time; a /pull-data request that has
\* returned answered 200 and started exactly one job, or answered 409 and
\* started none; a job is started only by a handler that holds the lock and
\* has set is_pulling, and only one at a time.
C19_AtMostOneJob ==
  /\ [](Cardinality(Running) <= 1)
  /\ [](\A i \in ReqIds :
          (reqs[i].kind = "pull" /\ reqs[i].pc = "returned")
            => \/ reqs[i].code = 200 /\ reqs[i].started = 1
               \/ reqs[i].code = 409 /\ reqs[i].started = 0)
  /\ [][ \A i \in ReqIds :
           reqs'[i].started > reqs[i].started
             => /\ is_pulling /\ pull_lock = ReqHolder(i)
                /\ Running = {}
                /\ Cardinality({j \in JobIds : jobs'[j] # jobs[j]}) = 1 ]_vars

\* two concurrent /pull-data requests: one started the job, the other was refused
C19_Witness ==
  /\ Cardinality(Running) = 1 /\ is_pulling
  /\ \E i, k \in ReqIds :
       /\ reqs[i] = [kind |-> "pull", pc |-> "returned", code |-> 200, started |-> 1]
       /\ reqs[k] = [kind |-> "pull", pc |-> "returned", code |-> 409, started |-> 0]

\* final messages of the job of module_4 and module_5
FinalStatus == {St4.Success, St4.NoJson, St4.Error, St5.SubprocError, St5.FileError, St5.Unexpected}

\* C20: in module_4 and module_5 every execution of _run_pull_job ends with
\* is_pulling false and last_status a final Success or Error message, and no
\* exception leaves the job.
C20_JobAlwaysEnds ==
  /\ [](\A j \in JobIds : ~At(j, "escaped"))
  /\ [][ (variant \in {"m4", "m5"})
           => \A j \in JobIds :
                (~At(j, "idle") /\ jobs'[j].pc \in {"idle", "escaped"})
                  => (is_pulling' = FALSE /\ last_status' \in FinalStatus) ]_vars

\* a job that met an exception has ended
C20_Witness ==
  /\ variant \in {"m4", "m5"}
  /\ Running = {} /\ is_pulling = FALSE /\ pull_lock = 0
  /\ last_status \in {St4.Error, St5.Unexpected}

\* ------------------------------------------------------------ database loader
\* module_4/src/load_data.py ("m4": load_rows) and module_3/load_data.py
\* ("m3": load_json_to_db) on the applicants table, through get_cursor of
\* db.py.  A JSON record is [url, data]: its "overview_url" and the rest.
LoaderVariants == {"m3", "m4"}

NoId == -1                       \* Python None as a p_id

LoadRowKinds ==
  { [url |-> "/survey/",   data |-> "a"],
    [url |-> "/result/7",  data |-> "a"],
    [url |-> "/result/07", data |-> "a"],
    [url |-> "/result/8",  data |-> "a"] }

LoadInputs == UNION { [1..n -> LoadRowKinds] : n \in 0..MaxLoadRows }

\* re.search(r'/result/(\d+)', url), then int(match.group(1))
UrlId(url) ==
  CASE url = "/result/7"  -> 7
    [] url = "/result/07" -> 7
    [] url = "/result/8"  -> 8
    [] OTHER              -> NoId

\* zlib.adler32(json.dumps(rec, sort_keys=True).encode("utf-8")) of
\* {"overview_url": "/survey/", "comments": "a"}
Adler32(r) == 1483869957

\* the p_id of a record
ExtractId(v, r) ==
  IF v = "m4" THEN UrlId(r.url)                                   \* normalize_row
  ELSE IF UrlId(r.url) # NoId THEN UrlId(r.url) ELSE Adler32(r)   \* _extract_p_id

\* normalize_row / normalize_record
Normalize(v, r) == [p_id |-> ExtractId(v, r), url |-> r.url, data |-> r.data]

\* load_rows that skips no row
Skips_None(v, nr) == FALSE

\* load_rows: if nr["p_id"] is None: skipped += 1; continue
Skips(v, nr) == v = "m4" /\ nr.p_id = NoId

RECURSIVE Cleaned(_, _)
\* the list `cleaned` (module_3: `rows`) built from the records
Cleaned(v, rows) ==
  IF rows = <<>> THEN <<>>
  ELSE LET nr == Normalize(v, Head(rows))
       IN IF Skips(v, nr) THEN Cleaned(v, Tail(rows))
          ELSE <<nr>> \o Cleaned(v, Tail(rows))

\* INSERT without the ON CONFLICT clause, on a table without the key
Upsert_Insert(rows, nr) == rows \cup {nr}

\* UPSERT_SQL: INSERT ... ON CONFLICT (p_id) DO UPDATE SET every column
Upsert(rows, nr) == {t \in rows : t.p_id # nr.p_id} \cup {nr}

\* get_cursor that commits in its except clause
AfterRaise_Commits(committed, view) == view

\* get_cursor, except Exception: conn.rollback(); raise
AfterRaise(committed, view) == committed

\* get_cursor, after the block: conn.commit(); COMMIT of a transaction that
\* a failed statement has aborted is a rollback
AfterExit(committed, t) == IF t.aborted THEN committed ELSE t.view

\* get_cursor: the connection opens, the first statement starts a transaction
Begin(committed) == [open |-> TRUE, view |-> committed, aborted |-> FALSE]

DbInit ==
  /\ variant \in LoaderVariants
  /\ table \in {NoTable, EmptyTable}
  /\ txn = NoTxn /\ l_pc = "idle" /\ l_in = NoLoad
  /\ l_cleaned = <<>> /\ l_i = 0 /\ l_ret = 0 /\ l_before = NoTable /\ l_hist = <<>>
  /\ max_workers = 1 /\ target = 1 /\ save_every_pages = 1
  /\ source = [K |-> 0, data |-> <<>>, tail |-> "empty"]
  /\ IdleCrawl /\ results = <<>> /\ seen_ids = {}
  /\ disk = NoFile /\ tmp = NoFile
  /\ IdleFetch /\ IdleSave /\ IdleMerge /\ IdleParse /\ IdleApp /\ IdlePool /\ IdleClean

\* load_rows(rows, reset) / load_json_to_db(path, reset) is called; the same
\* reset flag in every load of a behaviour
LoadCall(rows, reset) ==
  /\ l_pc \in {"idle", "returned", "raised"}
  /\ Len(l_hist) < MaxLoads
  /\ l_hist # <<>> => reset = l_in.reset
  /\ l_in' = [rows |-> rows, reset |-> reset]
  /\ l_before' = table
  /\ l_cleaned' = IF variant = "m3" THEN Cleaned(variant, rows) ELSE <<>>
  /\ l_i' = 1 /\ l_ret' = 0
  /\ txn' = Begin(table)
  /\ l_pc' = IF variant = "m4" /\ reset THEN "drop" ELSE "create"
  /\ UNCHANGED <<cleanVars, poolVars, scraperVars, parseVars, appVars, table, l_hist>>

\* ensure_schema: cur.execute(DROP_TABLE_SQL)
SchemaDrop ==
  /\ l_pc = "drop"
  /\ txn' = [txn EXCEPT !.view = NoTable]
  /\ l_pc' = "create"
  /\ UNCHANGED <<cleanVars, poolVars, scraperVars, parseVars, appVars, table, l_in, l_cleaned, l_i, l_ret,
                 l_before, l_hist>>

\* module_4 ensure_schema: CREATE TABLE fails on an existing table and the
\* "already exists" error is swallowed; then the block ends and commits.
\* module_3: CREATE TABLE IF NOT EXISTS inside the one transaction of the load.
SchemaCreate ==
  /\ l_pc = "create"
  /\ IF variant = "m4"
     THEN /\ txn' = NoTxn
          /\ table' = AfterExit(table, IF txn.view.exists
                                       THEN [txn EXCEPT !.aborted = TRUE]
                                       ELSE [txn EXCEPT !.view = EmptyTable])
          /\ l_pc' = "normalize"
     ELSE /\ txn' = IF txn.view.exists THEN txn ELSE [txn EXCEPT !.view = EmptyTable]
          /\ table' = table
          /\ l_pc' = IF l_in.reset THEN "truncate" ELSE "upsert"
  /\ UNCHANGED <<cleanVars, poolVars, scraperVars, parseVars, appVars, l_in, l_cleaned, l_i, l_ret,
                 l_before, l_hist>>

\* module_3: cur.execute("TRUNCATE TABLE applicants;")
Truncate ==
  /\ l_pc = "truncate"
  /\ txn' = [txn EXCEPT !.view = EmptyTable]
  /\ l_pc' = "upsert"
  /\ UNCHANGED <<cleanVars, poolVars, scraperVars, parseVars, appVars, table, l_in, l_cleaned, l_i, l_ret,
                 l_before, l_hist>>

\* load_rows: the loop that builds `cleaned`, then `with get_cursor() as cur`
NormalizeRows ==
  /\ l_pc = "normalize"
  /\ l_cleaned' = Cleaned(variant, l_in.rows)
  /\ txn' = Begin(table)
  /\ l_pc' = "upsert"
  /\ UNCHANGED <<cleanVars, poolVars, scraperVars, parseVars, appVars, table, l_in, l_i, l_ret, l_before, l_hist>>

\* cur.execute(UPSERT_SQL, r) for the next row
UpsertRow ==
  /\ l_pc = "upsert" /\ l_i <= Len(l_cleaned)
  /\ txn' = [txn EXCEPT !.view.rows = Upsert(@, l_cleaned[l_i])]
  /\ l_i' = l_i + 1
  /\ UNCHANGED <<cleanVars, poolVars, scraperVars, parseVars, appVars, table, l_pc, l_in, l_cleaned, l_ret,
                 l_before, l_hist>>

\* the block of get_cursor ends: commit, return len(cleaned)
LoadCommit ==
  /\ l_pc = "upsert" /\ l_i > Len(l_cleaned)
  /\ table' = AfterExit(table, txn)
  /\ txn' = NoTxn
  /\ l_ret' = Len(l_cleaned)
  /\ l_pc' = "returned"
  /\ l_hist' = Append(l_hist, [in |-> l_in, table |-> table', ok |-> TRUE])
  /\ UNCHANGED <<cleanVars, poolVars, scraperVars, parseVars, appVars, l_in, l_cleaned, l_i, l_before>>

\* a statement of the block raises (connection lost, server error): the
\* except clause of get_cursor, and the exception leaves the load
BlockRaises ==
  /\ txn.open /\ l_pc \in {"drop", "create", "truncate", "upsert"}
  /\ table' = AfterRaise(table, txn.view)
  /\ txn' = NoTxn
  /\ l_pc' = "raised"
  /\ l_hist' = Append(l_hist, [in |-> l_in, table |-> table', ok |-> FALSE])
  /\ UNCHANGED <<cleanVars, poolVars, scraperVars, parseVars, appVars, l_in, l_cleaned, l_i, l_ret, l_before>>

DbNext ==
  \/ \E rows \in LoadInputs, reset \in BOOLEAN : LoadCall(rows, reset)
  \/ SchemaDrop
  \/ SchemaCreate
  \/ Truncate
  \/ NormalizeRows
  \/ UpsertRow
  \/ LoadCommit
  \/ BlockRaises

DbSpec == DbInit /\ [][DbNext]_vars

\* the last record of the load with the p_id of record i
LastWithId(v, rows, i) ==
  LET k == CHOOSE k \in i..Len(rows) :
             /\ ExtractId(v, rows[k]) = ExtractId(v, rows[i])
             /\ \A m \in (k + 1)..Len(rows) : ExtractId(v, rows[m]) # ExtractId(v, rows[i])
  IN rows[k]

\* C21: the table never holds two rows with one p_id; a load that has
\* returned left, for every id among its records, the last record with that
\* id in the table; and two successive loads of the same records that both
\* returned left the same table.
C21_LoadIdempotent ==
  /\ \A t1, t2 \in table.rows : t1.p_id = t2.p_id => t1 = t2
  /\ l_pc = "returned" =>
       \A i \in 1..Len(l_in.rows) :
          ExtractId(variant, l_in.rows[i]) # NoId =>
             \E t \in table.rows :
                /\ t.p_id = ExtractId(variant, l_in.rows[i])
                /\ t.url = LastWithId(variant, l_in.rows, i).url
                /\ t.data = LastWithId(variant, l_in.rows, i).data
  /\ (Len(l_hist) = 2 /\ l_hist[1].ok /\ l_hist[2].ok /\ l_hist[1].in = l_hist[2].in)
       => l_hist[2].table = l_hist[1].table

\* the same two records, with one id, loaded twice into a table that held a
\* row of that id
C21_Witness ==
  /\ Len(l_hist) = 2 /\ l_hist[1].ok /\ l_hist[2].ok /\ l_hist[1].in = l_hist[2].in
  /\ l_in.rows = << [url |-> "/result/7", data |-> "a"], [url |-> "/result/07", data |-> "a"] >>
  /\ table.rows = {[p_id |-> 7, url |-> "/result/07", data |-> "a"]}

\* indices of the records whose id can be extracted from overview_url
WithId == {i \in 1..Len(l_in.rows) : UrlId(l_in.rows[i].url) # NoId}

\* C22: load_rows returns the number of records with an extractable id; the
\* table holds no row without id; every row of the table comes from such a
\* record or was there before the load; and a row that was there before and
\* whose id is not among the records is still there (unless reset).
C22_SkipsRowsWithoutId ==
  (variant = "m4" /\ l_pc = "returned") =>
     /\ l_ret = Cardinality(WithId)
     /\ \A t \in table.rows :
          /\ t.p_id # NoId
          /\ \/ \E i \in WithId : t.p_id = UrlId(l_in.rows[i].url) /\ t.url = l_in.rows[i].url
             \/ ~l_in.reset /\ t \in l_before.rows
     /\ \A t \in l_before.rows :
          (~l_in.reset /\ \A i \in WithId : UrlId(l_in.rows[i].url) # t.p_id)
             => t \in table.rows

\* a record without id between two loads: the second load returns 1 and
\* keeps the row of the first
C22_Witness ==
  /\ variant = "m4" /\ l_pc = "returned" /\ ~l_in.reset
  /\ l_in.rows = << [url |-> "/survey/", data |-> "a"], [url |-> "/result/8", data |-> "a"] >>
  /\ l_ret = 1
  /\ table.rows = { [p_id |-> 7, url |-> "/result/07", data |-> "a"],
                    [p_id |-> 8, url |-> "/result/8", data |-> "a"] }

\* C23: when the block of get_cursor ends normally the transaction is
\* committed (the table becomes what the block saw, unless a statement had
\* failed); when the block raises, the table stays as committed, the
\* exception goes on, and the table changes in no other step.
C23_CommitOrRollback ==
  /\ [][ (txn.open /\ ~txn'.open /\ l_pc' # "raised" /\ ~txn.aborted /\ l_pc = "upsert")
           => table' = txn.view ]_vars
  /\ [][ (txn.open /\ l_pc' = "raised") => (table' = table /\ ~txn'.open) ]_vars
  /\ [][ table' # table => (txn.open /\ ~txn'.open /\ l_pc' # "raised") ]_vars

\* the second load failed after its first upsert and the table is as the
\* first load left it
C23_Witness ==
  /\ l_pc = "raised" /\ l_i = 2 /\ ~txn.open
  /\ Len(l_hist) = 2 /\ l_hist[1].ok
  /\ table = l_hist[1].table /\ table.rows # {}
  /\ l_cleaned[1] \notin table.rows


\* ------------------------------------------------------------ crawl loop: counters, pool, checkpoint

\* C24: when a completed page is handled, consecutive_bad becomes 0 if the
\* page added at least one record to the collection, and grows by one
\* otherwise.
C24_BadCounter ==
  [][ (pages_done' = pages_done + 1 /\ pc' # "raised")
        => IF Len(results') > Len(results)
           THEN consecutive_bad' = 0
           ELSE consecutive_bad' = consecutive_bad + 1 ]_vars


\* C25 as stated: in_flight never holds more tasks than max_workers, and
\* after every completion handled with the collection short of the target
\* and the bad streak short of the ceiling, in_flight counts max_workers
\* tasks again.
C25_PoolRefilled ==
  /\ [](Cardinality(in_flight) <= max_workers)
  /\ [][ ( /\ pages_done' = pages_done + 1
           /\ Len(results') < target
           /\ consecutive_bad' < MaxConsecutiveBad(variant, max_workers) )
         => Cardinality(in_flight') = max_workers ]_vars

\* C25, amended: in_flight never holds more tasks than max_workers; and when a
\* completed page has been handled with the collection short of the target
\* and the bad streak short of the ceiling, exactly one task, for the next
\* unfetched page, has been added: a pool that counted max_workers tasks
\* (in flight or completed and still to be handled) counts max_workers
\* again, all of them in flight once every completion is handled.
C25_PoolBound ==
  /\ [](Cardinality(in_flight) <= max_workers)
  /\ [][ ( /\ pages_done' = pages_done + 1
           /\ Len(results') < target
           /\ consecutive_bad' < MaxConsecutiveBad(variant, max_workers) )
         => /\ next_page \notin in_flight
            /\ in_flight' = in_flight \cup {next_page}
            /\ next_page' = next_page + 1
            /\ Cardinality(in_flight) + Cardinality(done) = max_workers
                 => /\ Cardinality(in_flight') + Cardinality(done') = max_workers
                    /\ (done' = {} => Cardinality(in_flight') = max_workers) ]_vars

\* two tasks completed together have both been handled and replaced
C25_Witness ==
  /\ max_workers = 2 /\ pc = "while" /\ pages_done = 2 /\ next_page = 5
  /\ Cardinality(in_flight) = 2 /\ Len(results) < target


\* C26: from a state of scrape_data in which the collection holds at least
\* target records, no step of that run submits a page or appends a record.
C26_NothingPastTarget ==
  [][ (Len(results) >= target /\ run' = run /\ pc # "done")
        => (next_page' = next_page /\ results' = results) ]_vars


IsPrefix(a, b) == Len(a) <= Len(b) /\ SubSeq(b, 1, Len(a)) = a

\* C29: in a crawl started without a checkpoint or from a checkpoint that
\* loaded, the checkpoint file, once it exists, is at every moment the
\* complete JSON text of a prefix of the collection; the file changes only
\* by a save, to the collection of that moment, and across a load the
\* collection is the content of the file.
C29_CheckpointIsPrefix ==
  /\ [](disk.exists => disk.complete /\ IsPrefix(disk.data, results))
  /\ [][disk' # disk => disk' = JsonFile(results')]_vars
  /\ [][run' # run => results' = disk.data /\ disk' = disk]_vars

\* the last save lies behind the collection: records were appended since
C29_Witness ==
  /\ disk.exists /\ pages_done >= 3
  /\ Len(disk.data) < Len(results) /\ Len(results) = 2


\* ------------------------------------------------------------ Flask application: update during a pull

\* C30: the get_analysis() call of an /update-analysis request is never
\* executed while a pull is in progress (is_pulling set or a job running).
C30_NoQueryDuringPull ==
  [][ \A i \in ReqIds :
        (reqs[i].kind = "update" /\ reqs[i].pc = "query" /\ reqs'[i].pc # "query")
          => (~is_pulling /\ Running = {}) ]_vars


\* ------------------------------------------------------------ worker pool and merge lock
\* The primed page tasks run _parse_page (with _fetch_html inside) in the
\* worker threads; the main thread handles the finished ones, one step per
\* lock operation and per entry of the page it merges.
\*   task_pc[p]  "fetch", "parse", "finished" (returned, not yet handled),
\*               "merging", "handled"
\*   t_pc        main thread: "for", "acquire", "merge"

\* the merge loop without the with statement around it
Locked_Never(v) == FALSE

\* with self._lock: stands around the loop over the entries
Locked(v) == TRUE

PoolInit ==
  /\ variant \in Variants
  /\ max_workers \in 1..MaxWorkers
  /\ source \in Sources
  /\ target = 1 /\ save_every_pages = 1
  /\ results = <<>> /\ seen_ids = {} /\ start_page = 1
  /\ pc = "idle" /\ next_page = 1 /\ pages_done = 0 /\ consecutive_bad = 0
  /\ in_flight = {} /\ done = {} /\ run = 1 /\ loaded = <<>>
  /\ disk = NoFile /\ tmp = NoFile
  /\ lock = "free" /\ t_pc = "for"
  /\ task_pc = [p \in 1..max_workers |-> "fetch"]
  /\ IdleFetch /\ IdleSave /\ IdleMerge /\ IdleParse /\ IdleApp /\ IdleDb /\ IdleClean

\* worker thread: html = self._fetch_html(page_num) returns
TaskFetch(p) ==
  /\ task_pc[p] = "fetch"
  /\ task_pc' = [task_pc EXCEPT ![p] = "parse"]
  /\ UNCHANGED <<scraperVars, parseVars, appVars, dbVars, cleanVars, lock, t_pc>>

\* worker thread: the rows are parsed and _parse_page returns
\* (page_num, entries, status)
TaskParse(p) ==
  /\ task_pc[p] = "parse"
  /\ task_pc' = [task_pc EXCEPT ![p] = "finished"]
  /\ UNCHANGED <<scraperVars, parseVars, appVars, dbVars, cleanVars, lock, t_pc>>

\* main thread: page_num, entries, status = fut.result(); a page that is not
\* ok or has no entries is handled without a merge
MainTake(p) ==
  /\ t_pc = "for" /\ task_pc[p] = "finished"
  /\ LET r == ParseResult(source, p)
     IN IF r.status = "ok" /\ r.entries # <<>>
        THEN /\ m_entries' = r.entries
             /\ m_before' = [results |-> results, seen |-> seen_ids]
             /\ task_pc' = [task_pc EXCEPT ![p] = "merging"]
             /\ t_pc' = IF Locked(variant) THEN "acquire" ELSE "merge"
        ELSE /\ task_pc' = [task_pc EXCEPT ![p] = "handled"]
             /\ UNCHANGED <<m_entries, m_before, t_pc>>
  /\ UNCHANGED <<crawlCfg, crawlObj, crawlLoc, crawlHist, disk, tmp, fetchVars, saveVars,
                 parseVars, appVars, dbVars, cleanVars, lock>>

\* main thread: with self._lock (entered)
MainAcquire ==
  /\ t_pc = "acquire" /\ lock = "free"
  /\ lock' = "main" /\ t_pc' = "merge"
  /\ UNCHANGED <<scraperVars, parseVars, appVars, dbVars, cleanVars, task_pc>>

\* main thread: one iteration of the loop over the entries: the membership
\* test and, for a new id, the insert and the append
MainMergeOne ==
  /\ t_pc = "merge" /\ m_entries # <<>>
  /\ LET st == MergeEntries(variant, [results |-> results, seen |-> seen_ids],
                            <<Head(m_entries)>>)
     IN results' = st.results /\ seen_ids' = st.seen
  /\ m_entries' = Tail(m_entries)
  /\ UNCHANGED <<crawlCfg, start_page, crawlLoc, crawlHist, disk, tmp, fetchVars, saveVars,
                 m_before, parseVars, appVars, dbVars, cleanVars, lock, task_pc, t_pc>>

\* main thread: the with block ends
MainRelease ==
  /\ t_pc = "merge" /\ m_entries = <<>>
  /\ lock' = "free" /\ t_pc' = "for"
  /\ task_pc' = [p \in DOMAIN task_pc |->
                   IF task_pc[p] = "merging" THEN "handled" ELSE task_pc[p]]
  /\ UNCHANGED <<scraperVars, parseVars, appVars, dbVars, cleanVars>>

PoolNext ==
  \/ \E p \in DOMAIN task_pc : TaskFetch(p)
  \/ \E p \in DOMAIN task_pc : TaskParse(p)
  \/ \E p \in DOMAIN task_pc : MainTake(p)
  \/ MainAcquire
  \/ MainMergeOne
  \/ MainRelease

PoolSpec == PoolInit /\ [][PoolNext]_vars

\* C27: a step of a page task changes neither the collection nor the
\* seen-id set nor the lock; every iteration of the merge loop, and with it
\* every change of the collection or the set, happens with the lock held
\* by the main thread; and when the lock is released the collection and the
\* set are those of the uninterrupted merge of that page into the state
\* found when the page was taken.
C27_MergeUnderLock ==
  /\ [][ (\E p \in DOMAIN task_pc :
             task_pc[p] \in {"fetch", "parse"} /\ task_pc'[p] # task_pc[p])
         => (results' = results /\ seen_ids' = seen_ids /\ lock' = lock) ]_vars
  /\ [][ ( \/ results' # results \/ seen_ids' # seen_ids
           \/ (m_entries # <<>> /\ m_entries' = Tail(m_entries)) )
         => (lock = "main" /\ lock' = "main") ]_vars
  /\ [][ (t_pc = "merge" /\ t_pc' = "for")
         => \E p \in DOMAIN task_pc :
              /\ task_pc[p] = "merging"
              /\ [results |-> results, seen |-> seen_ids]
                   = MergeEntries(variant, m_before, ParseResult(source, p).entries) ]_vars

\* the main thread is inside the merge of one page, has appended a record
\* and has entries left, while the other page task is still being parsed
C27_Witness ==
  /\ t_pc = "merge" /\ lock = "main"
  /\ results # <<>> /\ m_entries # <<>>
  /\ \E p \in DOMAIN task_pc : task_pc[p] = "parse"


\* ------------------------------------------------------------ DataCleaner.clean_data
\* module_2/clean.py ("m2") and module_5/src/clean.py ("m5").  The input is a
\* non-empty list of rows, _can_use_api() has answered, and llm_hosting can
\* be imported, so that a direct call returns.  One step per batch.
CleanVariants == {"m2", "m5"}

\* raw "program" texts of the rows
Programs == {"", "cs", "CS "}

\* ((row or {}).get("program") or "").strip().lower()
Key(p) == IF p = "CS " THEN "cs" ELSE p
CacheKeys == {Key(p) : p \in Programs} \ {""}

\* the pair of llm-generated values one LLM answer carries; Absent: no
\* entry in the cache, NoValue: a row without the two fields
Outs == {"A", "B"}
Absent == "absent"
NoValue == "none"

\* how the batched POST to the standardizer ends: an answer with one row
\* per row sent; URLError (connection refused, HTTP error status);
\* TimeoutError (socket timeout while the answer is read); an answer with
\* fewer rows than were sent
ApiOutcomes == {"ok", "URLError", "TimeoutError", "short"}

\* the except clause around the batched call takes the failure
ApiCaught(v, o) ==
  IF v = "m2" THEN TRUE                  \* except Exception (a short answer raises ValueError)
  ELSE o = "URLError"                    \* except (urllib.error.URLError, ValueError);
                                         \* rows[k] on a short answer raises IndexError

CleanInputs == UNION { [1..n -> Programs] : n \in 1..MaxCleanRows }

CleanInit ==
  /\ variant \in CleanVariants
  /\ c_data \in CleanInputs
  /\ batch_size \in 1..MaxBatch
  /\ use_api \in BOOLEAN
  /\ c_pc = "loop" /\ c_i = 0
  /\ cache = [k \in CacheKeys |-> Absent]
  /\ cleaned = <<>> /\ sent = <<>> /\ c_last = "none" /\ c_out = NoFile
  /\ max_workers = 1 /\ target = 1 /\ save_every_pages = 1
  /\ source = [K |-> 0, data |-> <<>>, tail |-> "empty"]
  /\ IdleCrawl /\ results = <<>> /\ seen_ids = {}
  /\ disk = NoFile /\ tmp = NoFile
  /\ IdleFetch /\ IdleSave /\ IdleMerge /\ IdleParse /\ IdleApp /\ IdleDb /\ IdlePool

\* one iteration of `while i < total`: the cache pass over the batch, the
\* batched call ending as o or the direct calls, answer outs[n] for the n-th
\* row of the batch, cleaned.extend(batch), the periodic save and, after the
\* last batch, the final save
CleanBatch(o, outs) ==
  /\ c_pc = "loop"
  /\ LET last    == IF c_i + batch_size <= Len(c_data) THEN c_i + batch_size ELSE Len(c_data)
         batch   == (c_i + 1)..last
         hit(k)  == Key(c_data[k]) # "" /\ cache[Key(c_data[k])] # Absent
         misses  == {k \in batch : ~hit(k)}             \* send_map
         called  == use_api /\ misses # {}
         failed  == called /\ o # "ok"
         \* keys in the order of the rows sent
         keysOf  == [n \in 1..Cardinality(misses) |->
                       Key(c_data[CHOOSE k \in misses :
                                    Cardinality({j \in misses : j <= k}) = n])]
         value(k) == IF hit(k) THEN cache[Key(c_data[k])] ELSE outs[k - c_i]
         \* the cache keeps the answer of the last row sent with the key
         newCache == [key \in CacheKeys |->
                        LET ks == {k \in misses : Key(c_data[k]) = key}
                        IN IF ks = {} THEN cache[key]
                           ELSE outs[(CHOOSE k \in ks : \A j \in ks : j <= k) - c_i]]
         rows    == [n \in 1..(last - c_i) |->
                       [program |-> c_data[c_i + n], llm |-> value(c_i + n)]]
         out     == cleaned \o rows
     IN /\ (~called) => o = "ok"
        /\ c_last' = IF called THEN o ELSE "none"
        /\ IF failed /\ ~ApiCaught(variant, o)
           THEN \* the exception leaves clean_data
                /\ c_pc' = "raised"
                /\ UNCHANGED <<c_i, use_api, cache, cleaned, sent, c_out>>
           ELSE /\ use_api' = (use_api /\ ~failed)
                /\ cache' = newCache
                /\ sent' = sent \o keysOf
                /\ cleaned' = out
                /\ c_i' = last
                /\ c_pc' = IF last = Len(c_data) THEN "done" ELSE "loop"
                /\ c_out' = IF last % SaveRows = 0 \/ last = Len(c_data)
                            THEN JsonFile(out) ELSE c_out
  /\ UNCHANGED <<scraperVars, parseVars, appVars, dbVars, poolVars, c_data, batch_size>>

CleanNext == \E o \in ApiOutcomes, outs \in [1..MaxBatch -> Outs] : CleanBatch(o, outs)

CleanSpec == CleanInit /\ [][CleanNext]_vars

\* C31: use_api never turns from false to true; and a batch whose batched
\* API call failed ends with use_api false and with every row of the batch
\* in the output, carrying the llm-generated values.
C31_FallbackAfterFailure ==
  /\ [][use_api' => use_api]_vars
  /\ [][ (c_pc = "loop" /\ c_last' \notin {"none", "ok"})
         => /\ c_pc' # "raised" /\ ~use_api'
            /\ Len(cleaned') > Len(cleaned)
            /\ \A n \in (Len(cleaned) + 1)..Len(cleaned') : cleaned'[n].llm \in Outs ]_vars

\* C32: no non-empty program key is sent to the LLM twice, and the rows of
\* the output with the same non-empty key carry the same llm-generated values.
C32_EachKeySentOnce ==
  /\ \A m, n \in 1..Len(sent) : (m # n /\ sent[m] # "") => sent[m] # sent[n]
  /\ \A m, n \in 1..Len(cleaned) :
       (Key(cleaned[m].program) # "" /\ Key(cleaned[m].program) = Key(cleaned[n].program))
         => cleaned[m].llm = cleaned[n].llm


\* ------------------------------------------------------------ crawl loop: page numbers and order

\* C33: a run starts submitting at the resume cursor start_page; the pages a
\* step submits are exactly next_page, next_page + 1, ... up to the new
\* next_page, so pages go out in increasing order without a gap and none
\* twice; every task in flight or completed carries a page below next_page,
\* and a handled page, failed or not, does not come back.
C33_PagesInOrder ==
  /\ [](pc = "prime" => next_page = start_page)
  /\ [](\A p \in in_flight \cup done : start_page <= p /\ p < next_page)
  /\ [][ run' = run
         => /\ next_page' >= next_page
            /\ (in_flight' \cup done') \ (in_flight \cup done)
                 = next_page..(next_page' - 1) ]_vars

\* every page fails to fetch; two failed pages have been handled and each
\* was replaced by the next page, not by itself
C33_Witness ==
  /\ source.K = 0 /\ source.tail = "fail" /\ pages_done = 2
  /\ next_page = start_page + max_workers + 2
  /\ Cardinality(in_flight \cup done) = max_workers


\* A crawl of module_2 / module_4 over one listing page more than Sources
\* offers, every page with records: blocks of several pages meet in the
\* collection, in every completion order.
OrderInit ==
  /\ variant = "m4"
  /\ max_workers \in 1..MaxWorkers
  /\ target \in 1..MaxTarget
  /\ save_every_pages = 1
  /\ source \in { [K |-> MaxK + 1, data |-> d, tail |-> "empty"] :
                    d \in [1..(MaxK + 1) -> PageMenu] }
  /\ disk = NoFile /\ tmp = NoFile
  /\ results = <<>> /\ seen_ids = {} /\ start_page = 1
  /\ pc = "prime" /\ next_page = 1 /\ pages_done = 0 /\ consecutive_bad = 0
  /\ in_flight = {} /\ done = {}
  /\ run = 1 /\ loaded = <<>>
  /\ IdleFetch /\ IdleSave /\ IdleMerge /\ IdleParse /\ IdleApp /\ IdleDb /\ IdlePool /\ IdleClean

OrderSpec == OrderInit /\ [][Next]_vars

\* the index of the first occurrence of x in the sequence e
FirstAt(e, x) == CHOOSE i \in 1..Len(e) : e[i] = x /\ \A j \in 1..(i - 1) : e[j] # x

\* blk is the sequence of the ids of e that are not in seen, each once, in
\* the order of their first occurrence in e
IsNewBlock(blk, e, seen) ==
  /\ Range(blk) = Range(e) \ seen
  /\ \A a, b \in 1..Len(blk) : a < b => FirstAt(e, blk[a]) < FirstAt(e, blk[b])

\* C34: within a run every step leaves the records of the collection where
\* they are; what a step adds stands behind them and is the block of the new
\* records of one completed page, in the row order of that page.
C34_AppendOnly ==
  [][ run' = run
      => /\ IsPrefix(results, results')
         /\ results' # results
              => \E p \in done :
                   IsNewBlock(SubSeq(results', Len(results) + 1, Len(results')),
                              ParseResult(source, p).entries, seen_ids) ]_vars

\* two blocks: the record of page 1, then of the rows 102, 101, 102 of
\* page 2 the one new record
C34_Witness ==
  /\ source.data[1] = <<"101">> /\ source.data[2] = <<"102", "101", "102">>
  /\ results = <<"101", "102">> /\ pages_done = 2


\* C35: a run that loaded at least target records submits its max_workers
\* priming pages, handles no completion and appends nothing, and the
\* checkpoint it writes at the end holds exactly the loaded records.
C35_ResumeAtTarget ==
  /\ [][ (pc = "prime" /\ Len(results) >= target)
         => (in_flight' = start_page..(start_page + max_workers - 1)) ]_vars
  /\ []( (run >= 2 /\ Len(loaded) >= target)
         => /\ pages_done = 0 /\ results = loaded
            /\ pc \in {"prime", "while", "exit", "done"}
            /\ pc = "done" => disk = JsonFile(loaded) )

\* such a run has returned
C35_Witness ==
  /\ run = 2 /\ loaded # <<>> /\ Len(loaded) >= target /\ pc = "done"
  /\ next_page = start_page + max_workers /\ disk = JsonFile(loaded)


\* P: the largest number of records on one page of the source
PageMax(src) ==
  LET lens == {Len(src.data[p]) : p \in 1..src.K}
  IN IF lens = {} THEN 0 ELSE CHOOSE n \in lens : \A m \in lens : m <= n

\* C36: a run that started below the target never holds target +
\* max_workers * P records or more; a batch of completions is taken from
\* wait only with the collection below the target, and records are appended
\* only while such a batch is handled, so whatever stands past the target
\* came with the batch of the page that crossed it.
C36_OvershootBound ==
  /\ [](Len(loaded) < target
          => Len(results) < target + max_workers * PageMax(source))
  /\ [][(pc = "wait" /\ pc' = "for") => Len(results) < target]_vars
  /\ [][(run' = run /\ results' # results) => pc = "for"]_vars

\* pages 1 and 2 completed together: page 1 reached the target of one
\* record, page 2 of the same batch added a record past it, the run returned
C36_Witness ==
  /\ run = 1 /\ target = 1 /\ pc = "done" /\ pages_done = 2
  /\ results = <<"101", "102">>


\* in-progress messages of the job of module_4 and module_5
InProgress == {St4.Starting, St4.Step1, St4.Step2, St4.Step3}

\* C37: in module_4 and module_5, whenever is_pulling is false last_status is
\* not an in-progress message; the job clears the flag only with its final
\* status stored, and "Starting..." is written only by a /pull-data handler
\* that holds the lock and has set the flag.
C37_IdleStatusIsFinal ==
  /\ []((variant \in {"m4", "m5"} /\ ~is_pulling) => last_status \notin InProgress)
  /\ [][ (variant \in {"m4", "m5"} /\ is_pulling /\ ~is_pulling')
           => (last_status \in FinalStatus /\ last_status' = last_status) ]_vars
  /\ [][ (variant \in {"m4", "m5"} /\ last_status' = St4.Starting
            /\ last_status # St4.Starting)
           => (is_pulling /\ is_pulling'
               /\ \E i \in ReqIds : pull_lock = ReqHolder(i) /\ reqs[i].kind = "pull") ]_vars

\* a second pull has set the flag and "Starting..." after a first job ended
\* with a final status and cleared the flag
C37_Witness ==
  /\ variant \in {"m4", "m5"}
  /\ is_pulling /\ last_status = St4.Starting /\ Running = {}
  /\ \E i, k \in ReqIds :
       /\ reqs[i] = [kind |-> "pull", pc |-> "returned", code |-> 200, started |-> 1]
       /\ reqs[k].kind = "pull" /\ pull_lock = ReqHolder(k)


\* C38: in module_4 the upserts of one load_rows call form one transaction:
\* the table does not change while they run, a commit makes all of them
\* visible and a failure none; with reset=True the drop and create were
\* committed before, so the upserts start on the empty table and a failure
\* during them leaves the table empty.
C38_ResetThenOneTransaction ==
  /\ [][ (variant = "m4" /\ l_pc = "upsert")
           => /\ l_pc' = "upsert" => table' = table
              /\ l_pc' = "raised" => table' = table
              /\ l_pc' = "returned" => table' = txn.view ]_vars
  /\ []( (variant = "m4" /\ l_in # NoLoad /\ l_in.reset
            /\ l_pc \in {"normalize", "upsert"})
           => table = EmptyTable )
  /\ [][ (variant = "m4" /\ l_in.reset /\ l_pc = "upsert" /\ l_pc' = "raised")
           => table' = EmptyTable ]_vars

\* a second load with reset failed after its first upsert: the rows of the
\* first load are gone and the table is empty
C38_Witness ==
  /\ variant = "m4" /\ l_pc = "raised" /\ l_in.reset
  /\ l_i > 1 /\ l_cleaned # <<>>
  /\ l_before.exists /\ l_before.rows # {}
  /\ table = EmptyTable

====
